---- MODULE Spec2Model ----
(***************************************************************************)
(* Model of streamlit_app.py: one run of main() over an uploaded CSV file. *)
(* A run loads the file, cleans the table, reads the eight checkboxes and  *)
(* renders the checked report sections in their fixed order, then offers   *)
(* the table for download.  Any exception after the load is caught by the  *)
(* try/except of main.                                                     *)
(*                                                                         *)
(* A table is a record [cols, rows]: cols is the set of column names, rows *)
(* a sequence of functions from cols to cells.  A cell is a string; the    *)
(* missing cell (pandas NaN) is the reserved string NaN, which read_csv    *)
(* never yields as text because it parses that text as missing.            *)
(***************************************************************************)
EXTENDS Integers, Sequences, FiniteSets

VARIABLES
    file,      \* the uploaded file: [kind, table]
    show,      \* the checkbox widgets' values, one per report section
    pc,        \* position of the run of main
    df,        \* main's local table (NoTable before the load)
    out,       \* what the page displays, in order
    calls,     \* the functions main has called, in order
    charts,    \* the series each rendered section handed to its charts
    exported,  \* the table offered for download (NoTable before the export)
    sort_ties  \* how the installed sort orders equal counts in value_counts

vars == <<file, show, pc, df, out, calls, charts, exported, sort_ties>>

\* ------------------------------------------------------------------ bounds

\* rows of the tables of the whole-run specification
MaxRows == 2
\* rows of the tables of the clean_data specification
MaxCleanRows == 2
\* rows of the tables whose two salary cells are drawn independently
MaxPairRows == 1
\* rows of the tables of the income distribution
MaxIncomeRows == 3
\* rows of the short columns of the top-N specification
MaxShortRows == 3
\* rows added to the long columns of the top-N specification
MaxExtraRows == 2

\* ------------------------------------------------------------------ tables

NaN == "NaN"

NoTable == [cols |-> {}, rows |-> <<>>]

expected_columns ==
    {"nama_calon_murid", "kategori", "jalur", "tujuan1", "tujuan2", "tujuan3",
     "kampus1", "kampus2", "kampus3", "domisili", "alamat_propinsi",
     "alamat_kabupaten", "asal_sekolah", "propinsi_asal_sekolah",
     "ayah_pendidikan", "ayah_pekerjaan", "ayah_penghasilan",
     "ibu_pendidikan", "ibu_pekerjaan", "ibu_penghasilan"}

salary_columns == <<"ayah_penghasilan", "ibu_penghasilan">>

Sentinel == "\\N"

DefaultSalary == "0 - 2.500.000"

Placeholder == "Tidak Diketahui"

create_salary_order ==
    <<"0 - 2.500.000", "2.500.001 - 5.000.000", "5.000.001 - 7.500.000",
      "7.500.001 - 10.000.000", "10.000.001 - 20.000.000",
      "20.000.001 - 50.000.000", "50.000.001 - 100.000.000">>

Range(s) == {s[i] : i \in DOMAIN s}

Column(t, col) == [i \in DOMAIN t.rows |-> t.rows[i][col]]

\* Series.replace(old, new) assigned back to the column
ReplaceInColumn(t, col, old, new) ==
    [t EXCEPT !.rows = [i \in DOMAIN t.rows |->
        [t.rows[i] EXCEPT ![col] = IF @ = old THEN new ELSE @]]]

\* Fillna that leaves the salary columns as they are
FillnaOtherColumns(t, value) ==
    [t EXCEPT !.rows = [i \in DOMAIN t.rows |->
        [c \in t.cols |-> IF t.rows[i][c] = NaN /\ c \notin {"ayah_penghasilan", "ibu_penghasilan"}
                          THEN value ELSE t.rows[i][c]]]]

\* DataFrame.fillna(value)
Fillna(t, value) ==
    [t EXCEPT !.rows = [i \in DOMAIN t.rows |->
        [c \in t.cols |-> IF t.rows[i][c] = NaN THEN value ELSE t.rows[i][c]]]]

\* clean_data raises KeyError when a salary column is absent
CleanRaises(t) == \E k \in DOMAIN salary_columns : salary_columns[k] \notin t.cols

RECURSIVE ReplaceSalary(_, _)
\* the loop over salary_columns from position k on; it stops at the first
\* absent column, where df[col] raises
ReplaceSalary(t, k) ==
    IF k > Len(salary_columns) \/ salary_columns[k] \notin t.cols THEN t
    ELSE ReplaceSalary(ReplaceInColumn(t, salary_columns[k], Sentinel, DefaultSalary), k + 1)

\* clean_data(df), for a table that has both salary columns
CleanData(t) == Fillna(ReplaceSalary(t, 1), Placeholder)

\* ------------------------------------------------------------ value counts

\* A series is a sequence of <<label, count>> pairs.  value_counts sorts the
\* counts in descending order and leaves the order of equal counts to the
\* sort of the installed numpy: a run keeps either the order of first
\* occurrence ("first") or its reverse ("last") for them.

TieOrders == {"first", "last"}

RECURSIVE Uniques(_)
\* the distinct non-missing values of a column, in order of first occurrence
Uniques(s) ==
    IF s = <<>> THEN <<>>
    ELSE LET front == Uniques(SubSeq(s, 1, Len(s) - 1))
             x == s[Len(s)]
         IN IF x = NaN \/ x \in Range(front) THEN front ELSE Append(front, x)

CountOf(s, x) == Cardinality({i \in DOMAIN s : s[i] = x})

RECURSIVE InsertByCount(_, _, _)
\* insert pair p after every pair of a larger count and, with ties in order
\* of first occurrence, after every pair of the same count
InsertByCount(sorted, p, ties) ==
    IF sorted = <<>> THEN <<p>>
    ELSE IF sorted[1][2] > p[2] \/ (ties = "first" /\ sorted[1][2] = p[2])
         THEN <<sorted[1]>> \o InsertByCount(Tail(sorted), p, ties)
    ELSE <<p>> \o sorted

RECURSIVE SortByCount(_, _)
SortByCount(ps, ties) ==
    IF ps = <<>> THEN <<>>
    ELSE InsertByCount(SortByCount(SubSeq(ps, 1, Len(ps) - 1), ties), ps[Len(ps)], ties)

\* ValueCountsOf with sort=False: the counts in order of first occurrence
ValueCountsUnsorted(s, ties) ==
    LET u == Uniques(s)
    IN [i \in DOMAIN u |-> <<u[i], CountOf(s, u[i])>>]

\* Series.value_counts(): counts of the non-missing values, largest first
ValueCountsOf(s, ties) ==
    LET u == Uniques(s)
    IN SortByCount([i \in DOMAIN u |-> <<u[i], CountOf(s, u[i])>>], ties)

ValueCounts(t, col, ties) == ValueCountsOf(Column(t, col), ties)

\* Series.head(n)
SeriesHead(ps, n) == SubSeq(ps, 1, IF Len(ps) < n THEN Len(ps) ELSE n)

Index(ps) == [i \in DOMAIN ps |-> ps[i][1]]

\* Series.reindex(labels) for labels that are all in the index
Reindex(ps, labels) ==
    [i \in DOMAIN labels |->
        ps[CHOOSE j \in DOMAIN ps : ps[j][1] = labels[i]]]

RECURSIVE KeepIn(_, _)
\* [x for x in s if x in keep]
KeepIn(s, keep) ==
    IF s = <<>> THEN <<>>
    ELSE IF s[1] \in keep THEN <<s[1]>> \o KeepIn(Tail(s), keep)
    ELSE KeepIn(Tail(s), keep)

\* OrderedIncome without the reindex against the salary order
OrderedIncomeNoReindex(t, col, ties) == ValueCounts(t, col, ties)

\* income.reindex([x for x in salary_order if x in income.index])
OrderedIncome(t, col, ties) ==
    LET income == ValueCounts(t, col, ties)
    IN Reindex(income, KeepIn(create_salary_order, Range(Index(income))))

\* ------------------------------------------------------- combined income

\* get_max_income: the bracket labels it tests, in order, with their bounds
IncomeBounds ==
    << <<"0 - 2.500.000", 2500000>>,
       <<"2.500.001 - 5.000.000", 5000000>>,
       <<"5.000.001 - 7.500.000", 7500000>>,
       <<"7.500.001 - 10.000.000", 10000000>>,
       <<"10.000.001 - 20.000.000", 20000000>>,
       <<"20.000.001 - 50.000.000", 50000000>>,
       <<"50.000.001 - 100.000.000", 100000000>> >>

RECURSIVE LookupBound(_, _)
LookupBound(income_range, k) ==
    IF k > Len(IncomeBounds) THEN 0
    ELSE IF income_range = IncomeBounds[k][1] THEN IncomeBounds[k][2]
    ELSE LookupBound(income_range, k + 1)

get_max_income(income_range) == LookupBound(income_range, 1)

\* IncomeThresholds with the last elif of the chain left out
IncomeThresholdsThree == <<5000000, 10000000, 20000000>>

\* get_income_category: the thresholds of its if/elif chain, in order
IncomeThresholds == <<5000000, 10000000, 20000000, 50000000>>

\* the categories it returns: one per threshold, then the else branch
\* ("<= 5 Juta" stands for the source's label written with U+2264)
IncomeCategories == <<"<= 5 Juta", "5-10 Juta", "10-20 Juta", "20-50 Juta", "> 50 Juta">>

RECURSIVE BucketStrict(_, _)
\* Bucket with the chain's comparisons written < instead of <=
BucketStrict(total, k) ==
    IF k > Len(IncomeThresholds) THEN k
    ELSE IF total < IncomeThresholds[k] THEN k
    ELSE BucketStrict(total, k + 1)

RECURSIVE Bucket(_, _)
\* the position of the first branch of the chain that total takes
Bucket(total, k) ==
    IF k > Len(IncomeThresholds) THEN k
    ELSE IF total <= IncomeThresholds[k] THEN k
    ELSE Bucket(total, k + 1)

\* FamilyTotal with mother_max computed from the father's cell
FamilyTotalFatherTwice(father_income, mother_income) ==
    get_max_income(father_income) + get_max_income(father_income)

FamilyTotal(father_income, mother_income) ==
    get_max_income(father_income) + get_max_income(mother_income)

get_income_category(father_income, mother_income) ==
    IncomeCategories[Bucket(FamilyTotal(father_income, mother_income), 1)]

CombinedColumn == "combined_income_category"

\* df['combined_income_category'] = df.apply(lambda row: ..., axis=1): the
\* column is added, or its cells are overwritten when the table has it
AddCombinedIncome(t) ==
    [cols |-> t.cols \cup {CombinedColumn},
     rows |-> [i \in DOMAIN t.rows |->
        [c \in t.cols \cup {CombinedColumn} |->
            IF c = CombinedColumn
            THEN get_income_category(t.rows[i]["ayah_penghasilan"],
                                     t.rows[i]["ibu_penghasilan"])
            ELSE t.rows[i][c]]]]

\* ---------------------------------------------------------- report sections

\* the report sections, in the order main renders them
SectionOrder ==
    <<"summary", "demographic", "geographic", "preference",
      "education", "occupation", "income", "origin">>

Sections == Range(SectionOrder)

\* the columns a section reads
SectionColumns(s) ==
    CASE s = "summary" -> {"alamat_propinsi", "asal_sekolah", "domisili"}
      [] s = "demographic" -> {"domisili", "kategori"}
      [] s = "geographic" -> {"alamat_propinsi", "alamat_kabupaten"}
      [] s = "preference" -> {"tujuan1", "kampus1", "kampus2", "kampus3"}
      [] s = "education" -> {"ayah_pendidikan", "ibu_pendidikan"}
      [] s = "occupation" -> {"ayah_pekerjaan", "ibu_pekerjaan"}
      [] s = "income" -> {"ayah_penghasilan", "ibu_penghasilan"}
      [] s = "origin" -> {"propinsi_asal_sekolah", "asal_sekolah"}

\* the sections that read the most frequent value, counts.index[0]
ReadsFirstCount == {"demographic", "geographic", "preference", "occupation"}

\* Whether a call of section s on table t raises: an absent column raises
\* KeyError, and index[0] of the value counts of a table without rows raises
\* IndexError.  The other statements of a section raise on no table: on a
\* table without rows the charts are drawn empty and income_analysis adds an
\* empty column (apply reduces an empty frame to an empty series).
SectionRaises(s, t) ==
    \/ ~(SectionColumns(s) \subseteq t.cols)
    \/ t.rows = <<>> /\ s \in ReadsFirstCount

\* SectionTable with income_analysis assigning to a copy of the table
SectionTableOnCopy(s, t) == t

\* the table after section s returns: only income_analysis assigns to df
SectionTable(s, t) == IF s = "income" THEN AddCombinedIncome(t) ELSE t

\* the series section s hands to its charts, in the order it computes them
\* (for summary_statistics, its four metrics; parent_education_analysis also
\* draws the two series side by side)
SectionCharts(s, t, ties) ==
    CASE s = "summary" ->
            <<Len(t.rows),
              Len(Uniques(Column(t, "alamat_propinsi"))),
              Len(Uniques(Column(t, "asal_sekolah"))),
              Cardinality({i \in DOMAIN t.rows : t.rows[i]["domisili"] = "JAWA BARAT"})>>
      [] s = "demographic" ->
            <<ValueCounts(t, "domisili", ties), ValueCounts(t, "kategori", ties)>>
      [] s = "geographic" ->
            <<ValueCounts(t, "alamat_propinsi", ties),
              SeriesHead(ValueCounts(t, "alamat_kabupaten", ties), 10)>>
      [] s = "preference" ->
            <<ValueCounts(t, "tujuan1", ties),
              ValueCountsOf(Column(t, "kampus1") \o Column(t, "kampus2")
                            \o Column(t, "kampus3"), ties)>>
      [] s = "education" ->
            <<ValueCounts(t, "ayah_pendidikan", ties), ValueCounts(t, "ibu_pendidikan", ties)>>
      [] s = "occupation" ->
            <<SeriesHead(ValueCounts(t, "ayah_pekerjaan", ties), 8),
              SeriesHead(ValueCounts(t, "ibu_pekerjaan", ties), 8)>>
      [] s = "income" ->
            <<OrderedIncome(t, "ayah_penghasilan", ties),
              OrderedIncome(t, "ibu_penghasilan", ties),
              ValueCounts(AddCombinedIncome(t), CombinedColumn, ties)>>
      [] s = "origin" ->
            <<ValueCounts(t, "propinsi_asal_sekolah", ties),
              SeriesHead(ValueCounts(t, "asal_sekolah", ties), 10)>>

NoCharts == [s \in Sections |-> <<>>]

Min(S) == CHOOSE x \in S : \A y \in S : x <= y

\* NextFrom without the checkbox tests: every section follows the one before
NextFromIgnoringCheckboxes(k, sh) ==
    IF k < Len(SectionOrder) THEN SectionOrder[k + 1] ELSE "export"

\* the next position of main after the section at position k of SectionOrder
\* (0: after the checkboxes): the first later section whose checkbox is
\* checked, or the data export
NextFrom(k, sh) ==
    LET later == {j \in DOMAIN SectionOrder : j > k /\ sh[SectionOrder[j]]}
    IN IF later = {} THEN "export" ELSE SectionOrder[Min(later)]

Position(s) == CHOOSE k \in DOMAIN SectionOrder : SectionOrder[k] = s

\* ------------------------------------------------------------------ main

\* uploaded_file is None: the upload prompt and the expected format
NoUpload ==
    /\ pc = "start"
    /\ file.kind = "none"
    /\ out' = out \o <<"info_upload", "expected_format">>
    /\ pc' = "done"
    /\ UNCHANGED <<file, show, df, calls, charts, exported, sort_ties>>

\* LoadDataFails without main's "if df is None: return"
LoadDataFailsNoReturn ==
    /\ pc = "start"
    /\ file.kind = "bad"
    /\ calls' = Append(calls, "load_data")
    /\ out' = Append(out, "error_load")
    /\ pc' = "clean"
    /\ UNCHANGED <<file, show, df, charts, exported, sort_ties>>

\* load_data: read_csv raises; the error is displayed, None is returned and
\* main returns
LoadDataFails ==
    /\ pc = "start"
    /\ file.kind = "bad"
    /\ calls' = Append(calls, "load_data")
    /\ out' = Append(out, "error_load")
    /\ pc' = "done"
    /\ UNCHANGED <<file, show, df, charts, exported, sort_ties>>

\* load_data: read_csv returns the table
LoadData ==
    /\ pc = "start"
    /\ file.kind = "csv"
    /\ calls' = Append(calls, "load_data")
    /\ df' = file.table
    /\ pc' = "clean"
    /\ UNCHANGED <<file, show, out, charts, exported, sort_ties>>

\* df = clean_data(df), then the success message and the eight checkboxes
CleanDataStep ==
    /\ pc = "clean"
    /\ calls' = Append(calls, "clean_data")
    /\ IF CleanRaises(df)
       THEN /\ pc' = "except"
            /\ df' = ReplaceSalary(df, 1)
            /\ UNCHANGED out
       ELSE /\ df' = CleanData(df)
            /\ out' = out \o <<"success", "checkboxes">>
            /\ pc' = NextFrom(0, show)
    /\ UNCHANGED <<file, show, charts, exported, sort_ties>>

\* if show_<s>: <s>_analysis(df); st.markdown("---")
\* A section that raises has displayed its header (its first statement) and
\* whatever precedes the failing statement: the page keeps that part.
RunSection(s) ==
    /\ pc = s
    /\ calls' = Append(calls, s)
    /\ IF SectionRaises(s, df)
       THEN /\ pc' = "except"
            /\ out' = Append(out, "section_header")
            /\ UNCHANGED <<df, charts>>
       ELSE /\ df' = SectionTable(s, df)
            /\ charts' = [charts EXCEPT ![s] = SectionCharts(s, df, sort_ties)]
            /\ out' = Append(out, s)
            /\ pc' = NextFrom(Position(s), show)
    /\ UNCHANGED <<file, show, exported, sort_ties>>

summary_statistics == RunSection("summary")

demographic_analysis == RunSection("demographic")

geographical_analysis == RunSection("geographic")

school_preference_analysis == RunSection("preference")

parent_education_analysis == RunSection("education")

parent_occupation_analysis == RunSection("occupation")

income_analysis == RunSection("income")

school_origin_analysis == RunSection("origin")

\* the expander with the table and the download button
Export ==
    /\ pc = "export"
    /\ out' = out \o <<"raw_data", "download">>
    /\ exported' = df
    /\ pc' = "done"
    /\ UNCHANGED <<file, show, df, calls, charts, sort_ties>>

\* HandleException in a handler that resumes the run at the export
HandleExceptionResumes ==
    /\ pc = "except"
    /\ out' = out \o <<"error_process", "format_hint">>
    /\ pc' = "export"
    /\ UNCHANGED <<file, show, df, calls, charts, exported, sort_ties>>

\* except Exception: the processing error and the format hint
HandleException ==
    /\ pc = "except"
    /\ out' = out \o <<"error_process", "format_hint">>
    /\ pc' = "done"
    /\ UNCHANGED <<file, show, df, calls, charts, exported, sort_ties>>

Next ==
    \/ NoUpload
    \/ LoadDataFails
    \/ LoadData
    \/ CleanDataStep
    \/ summary_statistics
    \/ demographic_analysis
    \/ geographical_analysis
    \/ school_preference_analysis
    \/ parent_education_analysis
    \/ parent_occupation_analysis
    \/ income_analysis
    \/ school_origin_analysis
    \/ Export
    \/ HandleException

\* ------------------------------------------------------------------ inputs

NoFile == [kind |-> "none", table |-> NoTable]

BadFile == [kind |-> "bad", table |-> NoTable]

Csv(t) == [kind |-> "csv", table |-> t]

\* a row: the two salary cells, and one cell value for every other column
Row(cols, a, b, x) ==
    [c \in cols |-> IF c = "ayah_penghasilan" THEN a
                    ELSE IF c = "ibu_penghasilan" THEN b
                    ELSE x]

\* the sequences over S of length at most n
SeqsUpTo(S, n) == UNION {[1..k -> S] : k \in 0..n}

AllShows == [Sections -> BOOLEAN]

AllChecked == [s \in Sections |-> TRUE]

Only(S) == [s \in Sections |-> s \in S]

\* a run starts with a file in the uploader and the checkboxes' values, on
\* an installation with one of the tie orders
InitOf(runs) ==
    /\ \E r \in runs : file = r[1] /\ show = r[2]
    /\ sort_ties \in TieOrders
    /\ pc = "start"
    /\ df = NoTable
    /\ out = <<>>
    /\ calls = <<>>
    /\ charts = NoCharts
    /\ exported = NoTable

\* the column sets of the whole-run specification: the expected format, the
\* format with one column absent, and the format with a further column that
\* is already named combined_income_category
MainColumnSets ==
    {expected_columns, expected_columns \cup {CombinedColumn}} \cup
    {expected_columns \ {c} :
        c \in {"kategori", "kampus2", "propinsi_asal_sekolah", "ibu_penghasilan"}}

MainRowKinds ==
    {<<"2.500.001 - 5.000.000", Sentinel, "JAWA BARAT">>,
     <<NaN, "20.000.001 - 50.000.000", NaN>>}

MainTables ==
    {[cols |-> cs, rows |-> [i \in DOMAIN ks |-> Row(cs, ks[i][1], ks[i][2], ks[i][3])]] :
        cs \in MainColumnSets, ks \in SeqsUpTo(MainRowKinds, MaxRows)}

MainRuns == ({NoFile, BadFile} \cup {Csv(t) : t \in MainTables}) \X AllShows

\* runs that take every path of main: no file, an unreadable file, a table of
\* the expected format and a table without rows, all checkboxes checked
EdgeRuns ==
    {NoFile, BadFile,
     Csv([cols |-> expected_columns,
          rows |-> <<Row(expected_columns, "0 - 2.500.000", NaN, "JAWA BARAT")>>]),
     Csv([cols |-> expected_columns, rows |-> <<>>])} \X {AllChecked}

TableOf(cs, ks) ==
    [cols |-> cs, rows |-> [i \in DOMAIN ks |-> Row(cs, ks[i][1], ks[i][2], ks[i][3])]]

\* clean_data: cells that are a label, the sentinel or missing, in tables with
\* and without the salary columns
CleanCells == {"2.500.001 - 5.000.000", Sentinel, NaN}

CleanColumnSets ==
    {expected_columns, expected_columns \ {"ibu_penghasilan"},
     expected_columns \ {"ayah_penghasilan", "ibu_penghasilan"}}

CleanTables ==
    {TableOf(cs, ks) : cs \in CleanColumnSets,
        ks \in SeqsUpTo(CleanCells \X CleanCells \X {"SMA", Sentinel, NaN}, MaxCleanRows)}

CleanRuns == ({Csv(t) : t \in CleanTables} \X {Only({})}) \cup EdgeRuns

\* income_analysis: every pair of salary cells, and longer tables of a few
\* kinds of rows
SalaryCells == Range(create_salary_order) \cup {Sentinel, NaN, "lainnya"}

PairTables ==
    {TableOf(expected_columns, ks) :
        ks \in SeqsUpTo(SalaryCells \X SalaryCells \X {"SMA"}, MaxPairRows)}

IncomeRowKinds ==
    {<<"10.000.001 - 20.000.000", "2.500.001 - 5.000.000", "SMA">>,
     <<"2.500.001 - 5.000.000", "50.000.001 - 100.000.000", "SMA">>,
     <<NaN, "0 - 2.500.000", "SMA">>,
     <<"lainnya", Sentinel, "SMA">>,
     <<Sentinel, NaN, "SMA">>,
     <<"50.000.001 - 100.000.000", "lainnya", "SMA">>}

IncomeTables ==
    {TableOf(expected_columns, ks) : ks \in SeqsUpTo(IncomeRowKinds, MaxIncomeRows)}

IncomeRuns ==
    ({Csv(t) : t \in PairTables \cup IncomeTables} \X {Only({"income"})}) \cup EdgeRuns

\* top-N value counts: every column but the salary columns holds the row's
\* key; short columns, and columns that hold ten keys and more
Keys == {"k01", "k02", "k03", "k04", "k05", "k06", "k07", "k08", "k09", "k10", "k11", "k12"}

TenKeys == <<"k01", "k02", "k03", "k04", "k05", "k06", "k07", "k08", "k09", "k10">>

KeyTable(keys) ==
    [cols |-> expected_columns,
     rows |-> [i \in DOMAIN keys |->
                 Row(expected_columns, "0 - 2.500.000", "0 - 2.500.000", keys[i])]]

TopNTables ==
    {KeyTable(ks) : ks \in SeqsUpTo({"k01", "k02", "k03"}, MaxShortRows)}
    \cup {KeyTable(p[1] \o TenKeys \o p[2]) :
            p \in {q \in SeqsUpTo(Keys, MaxExtraRows) \X SeqsUpTo(Keys, MaxExtraRows) :
                      Len(q[1]) + Len(q[2]) <= MaxExtraRows}}

TopNRuns ==
    ({Csv(t) : t \in TopNTables} \X {Only({"geographic", "occupation", "origin"})})
    \cup EdgeRuns

Init == InitOf(MainRuns)

Spec == Init /\ [][Next]_vars

\* the same program on the inputs of clean_data
SpecClean == InitOf(CleanRuns) /\ [][Next]_vars

\* the same program on the inputs of income_analysis
SpecIncome == InitOf(IncomeRuns) /\ [][Next]_vars

\* the same program on the inputs of the top-N value counts
SpecTopN == InitOf(TopNRuns) /\ [][Next]_vars

\* ------------------------------------------------------- claims: the run

Last(q) == q[Len(q)]

\* the checked sections, in the fixed order
CheckedInOrder == KeepIn(SectionOrder, {s \in Sections : show[s]})

\* the sections the page shows, in the order they were rendered
Rendered == KeepIn(out, Sections)

\* the run has ended after a load and a clean that raised nothing
CleanedRunDone == pc = "done" /\ file.kind = "csv" /\ ~CleanRaises(file.table)

\* the page of a run that rendered every checked section and the export
FullPage == <<"success", "checkboxes">> \o CheckedInOrder \o <<"raw_data", "download">>

\* C6 as stated: in every run in which the file was loaded and cleaned
\* without error, the rendered sections are exactly the checked ones, in the
\* fixed order, and the data export follows them.
C6_Original == CleanedRunDone => (Rendered = CheckedInOrder /\ out = FullPage)

\* every column a checked section reads is in the uploaded table, and the
\* table has a row when a checked section reads index[0] of its value counts
C6_InputFits ==
    \A s \in Sections :
        show[s] => /\ SectionColumns(s) \subseteq file.table.cols
                   /\ s \in ReadsFirstCount => file.table.rows # <<>>

\* C6 amended: in every run in which the file was loaded and cleaned without
\* error, on a table that holds every column a checked section reads and at
\* least one row when the demographic, geographic, preference or occupation
\* section is checked, the rendered sections are exactly the checked ones, in
\* the fixed order, and the data export follows them, whatever the checkbox
\* values are.
C6_Amended ==
    (CleanedRunDone /\ C6_InputFits)
        => (Rendered = CheckedInOrder /\ out = FullPage /\ exported = df)

\* a finished run on a fitting table that rendered some sections and skipped
\* others, one of the skipped ones reading a column the table lacks
C6_Witness ==
    /\ CleanedRunDone
    /\ C6_InputFits
    /\ "kampus2" \notin file.table.cols
    /\ file.table.rows # <<>>
    /\ show = Only({"demographic", "income", "origin"})
    /\ Rendered = <<"demographic", "income", "origin">>
    /\ Last(out) = "download"

\* C7: when read_csv raises, load_data displays the load error and main
\* returns: clean_data is never called, and no success message, checkbox,
\* section or export is shown.  When no file is uploaded, nothing is loaded
\* and no section is rendered.
C7_LoadFailure ==
    /\ file.kind = "bad" =>
          /\ "clean_data" \notin Range(calls)
          /\ Range(out) \subseteq {"error_load"}
          /\ df = NoTable /\ exported = NoTable /\ charts = NoCharts
          /\ pc = "done" => (calls = <<"load_data">> /\ out = <<"error_load">>)
    /\ file.kind = "none" =>
          /\ calls = <<>>
          /\ Range(out) \subseteq {"info_upload", "expected_format"}
          /\ df = NoTable /\ exported = NoTable /\ charts = NoCharts

\* a finished run on a file that read_csv could not parse
C7_Witness == file.kind = "bad" /\ pc = "done" /\ out = <<"error_load">>

\* C8: when a section raises, the page holds the sections that are checked
\* and come earlier in the fixed order, then one processing error and the
\* format hint; no later section and no export is shown.
C8_SectionException ==
    (pc = "done" /\ "error_process" \in Range(out) /\ Last(calls) \in Sections) =>
        LET failing == Last(calls)
            earlier == SubSeq(SectionOrder, 1, Position(failing) - 1)
        IN /\ show[failing]
           /\ out = <<"success", "checkboxes">>
                    \o KeepIn(earlier, {s \in Sections : show[s]})
                    \o <<"section_header", "error_process", "format_hint">>
           /\ exported = NoTable

\* a run in which a section raised after an earlier one was rendered and
\* before a later checked one
C8_Witness ==
    /\ pc = "done"
    /\ "error_process" \in Range(out)
    /\ Last(calls) = "preference"
    /\ "summary" \in Range(out)
    /\ show["origin"]

\* the rows of t agree with those of u on the columns cs
SameOn(t, u, cs) ==
    /\ Len(t.rows) = Len(u.rows)
    /\ \A i \in DOMAIN t.rows : \A c \in cs : t.rows[i][c] = u.rows[i][c]

\* clean_data has returned on the uploaded table
AfterClean == file.kind = "csv" /\ ~CleanRaises(file.table) /\ pc \notin {"start", "clean"}

\* C9 as stated: after clean_data, main's table always equals clean_data's
\* output, except that once income_analysis has returned it has the one
\* further column combined_income_category and no other cell changed; the
\* exported table has that column exactly when the income checkbox is checked.
C9_Original ==
    AfterClean =>
        LET cleaned == CleanData(file.table)
        IN /\ IF "income" \in Range(out)
              THEN /\ df.cols = cleaned.cols \cup {CombinedColumn}
                   /\ CombinedColumn \notin cleaned.cols
                   /\ SameOn(df, cleaned, cleaned.cols)
              ELSE df = cleaned
           /\ "download" \in Range(out) =>
                 /\ (CombinedColumn \in exported.cols) <=> show["income"]
                 /\ exported.cols \ {CombinedColumn} = cleaned.cols
                 /\ SameOn(exported, cleaned, cleaned.cols)

\* C9 amended: after clean_data, main's table always equals clean_data's
\* output, except that once income_analysis has returned it has the column
\* combined_income_category (added, or overwritten when the uploaded table
\* already had it) and every other cell is unchanged; the exported table has
\* that column exactly when the income checkbox is checked or the uploaded
\* table already had it.
C9_OnlyIncomeModifies ==
    AfterClean =>
        LET cleaned == CleanData(file.table)
            others == cleaned.cols \ {CombinedColumn}
        IN /\ IF "income" \in Range(out)
              THEN /\ df.cols = cleaned.cols \cup {CombinedColumn}
                   /\ SameOn(df, cleaned, others)
                   /\ \A i \in DOMAIN df.rows :
                         df.rows[i][CombinedColumn] \in Range(IncomeCategories)
              ELSE df = cleaned
           /\ "download" \in Range(out) =>
                 /\ (CombinedColumn \in exported.cols)
                       <=> (show["income"] \/ CombinedColumn \in file.table.cols)
                 /\ exported.cols \ {CombinedColumn} = others
                 /\ SameOn(exported, cleaned, others)
                 /\ ~show["income"] => exported = cleaned

\* an export after income_analysis added the column and other sections ran
\* on a table with rows
C9_Witness ==
    /\ "download" \in Range(out)
    /\ show["income"] /\ show["education"] /\ show["origin"]
    /\ exported.rows # <<>>
    /\ CombinedColumn \notin file.table.cols
    /\ CombinedColumn \in exported.cols

\* -------------------------------------------------- claims: clean_data

\* clean_data is the last function main has called
CleanCalled == calls # <<>> /\ Last(calls) = "clean_data"

\* clean_data has returned: main has displayed the success message
CleanReturned == "success" \in Range(out)

HasSalaryColumns(t) == {"ayah_penghasilan", "ibu_penghasilan"} \subseteq t.cols

\* the cell the claim gives for cell v of column c
C3_Cell(c, v) ==
    IF c \in {"ayah_penghasilan", "ibu_penghasilan"} /\ v = "\\N" THEN "0 - 2.500.000"
    ELSE IF v = NaN THEN "Tidak Diketahui"
    ELSE v

C3_Table(t) ==
    [cols |-> t.cols,
     rows |-> [i \in DOMAIN t.rows |-> [c \in t.cols |-> C3_Cell(c, t.rows[i][c])]]]

C3_Cleaned ==
    /\ CleanReturned
    /\ df = C3_Table(file.table)
    /\ \A i \in DOMAIN df.rows : \A c \in df.cols :
          /\ df.rows[i][c] # NaN
          /\ c \in {"ayah_penghasilan", "ibu_penghasilan"} => df.rows[i][c] # "\\N"

\* C3 as stated: for every input table, clean_data returns the table with
\* each sentinel salary cell replaced by '0 - 2.500.000', each missing cell by
\* 'Tidak Diketahui' and every other cell unchanged.
C3_Original == CleanCalled => C3_Cleaned

\* C3 amended: for every input table that has both salary columns,
\* clean_data returns the table with each sentinel salary cell replaced by
\* '0 - 2.500.000', each missing cell by 'Tidak Diketahui' and every other
\* cell unchanged; no cell is then missing and no salary cell is the sentinel.
C3_Amended == (CleanCalled /\ HasSalaryColumns(file.table)) => C3_Cleaned

\* clean_data returned on a table with a sentinel and a missing salary cell,
\* and a sentinel and a missing cell in another column
C3_Witness ==
    /\ CleanCalled
    /\ CleanReturned
    /\ Len(df.rows) = 2
    /\ file.table.rows[1]["ayah_penghasilan"] = Sentinel
    /\ file.table.rows[1]["ibu_penghasilan"] = NaN
    /\ file.table.rows[1]["kategori"] = Sentinel
    /\ file.table.rows[2]["kategori"] = NaN
    /\ df.rows[1]["ayah_penghasilan"] = DefaultSalary
    /\ df.rows[1]["kategori"] = Sentinel

\* ---------------------------------------------- claims: income_analysis

\* income_analysis has returned
IncomeRendered == "income" \in Range(out)

\* the upper bound the claim gives for a cell
C1_Bound(v) ==
    CASE v = "0 - 2.500.000" -> 2500000
      [] v = "2.500.001 - 5.000.000" -> 5000000
      [] v = "5.000.001 - 7.500.000" -> 7500000
      [] v = "7.500.001 - 10.000.000" -> 10000000
      [] v = "10.000.001 - 20.000.000" -> 20000000
      [] v = "20.000.001 - 50.000.000" -> 50000000
      [] v = "50.000.001 - 100.000.000" -> 100000000
      [] OTHER -> 0

\* the category the claim gives for a total
C1_Category(total) ==
    IF total <= 5000000 THEN "<= 5 Juta"
    ELSE IF total <= 10000000 THEN "5-10 Juta"
    ELSE IF total <= 20000000 THEN "10-20 Juta"
    ELSE IF total <= 50000000 THEN "20-50 Juta"
    ELSE "> 50 Juta"

\* C1: after income_analysis, every row's combined_income_category is the
\* category of the sum of the upper bounds of its two salary cells (0 for a
\* cell that is no bracket label).
C1_CombinedCategory ==
    IncomeRendered =>
        /\ CombinedColumn \in df.cols
        /\ \A i \in DOMAIN df.rows :
              df.rows[i][CombinedColumn] =
                  C1_Category(C1_Bound(df.rows[i]["ayah_penghasilan"])
                              + C1_Bound(df.rows[i]["ibu_penghasilan"]))

\* a row whose total is exactly the first threshold
C1_Witness ==
    /\ IncomeRendered
    /\ \E i \in DOMAIN df.rows :
          /\ df.rows[i]["ayah_penghasilan"] = "0 - 2.500.000"
          /\ df.rows[i]["ibu_penghasilan"] = "0 - 2.500.000"
          /\ df.rows[i][CombinedColumn] = "<= 5 Juta"

LookupLabels == [k \in DOMAIN IncomeBounds |-> IncomeBounds[k][1]]

\* the category position of a total re-bucketed against IncomeThresholds
C2_Position(total) ==
    1 + Cardinality({k \in DOMAIN IncomeThresholds : total > IncomeThresholds[k]})

C2_Rebucketed ==
    \A i \in DOMAIN df.rows :
        df.rows[i][CombinedColumn] =
            IncomeCategories[C2_Position(FamilyTotal(df.rows[i]["ayah_penghasilan"],
                                                     df.rows[i]["ibu_penghasilan"]))]

\* C2 as stated: the combined column is computed with a lookup table of the
\* seven labels of create_salary_order, in its order, and the sum is
\* re-bucketed against five thresholds.
C2_Original ==
    IncomeRendered =>
        /\ LookupLabels = create_salary_order /\ Len(LookupLabels) = 7
        /\ Len(IncomeThresholds) = 5
        /\ C2_Rebucketed

\* C2 amended: the combined column is computed with a lookup table of the
\* seven labels of create_salary_order, in its order, and the sum is
\* re-bucketed against four thresholds (5, 10, 20 and 50 million) into five
\* categories.
C2_Amended ==
    IncomeRendered =>
        /\ LookupLabels = create_salary_order /\ Len(LookupLabels) = 7
        /\ Len(IncomeThresholds) = 4 /\ Len(IncomeCategories) = 5
        /\ C2_Rebucketed

\* a row whose total exceeds every threshold
C2_Witness ==
    /\ IncomeRendered
    /\ \E i \in DOMAIN df.rows :
          /\ df.rows[i]["ayah_penghasilan"] = "50.000.001 - 100.000.000"
          /\ df.rows[i]["ibu_penghasilan"] = "20.000.001 - 50.000.000"
          /\ df.rows[i][CombinedColumn] = "> 50 Juta"

RECURSIVE C5_Distribution(_, _)
\* the labels of the salary order from position k on that occur in column s,
\* each with the number of rows that hold it
C5_Distribution(s, k) ==
    IF k > Len(create_salary_order) THEN <<>>
    ELSE LET label == create_salary_order[k]
             n == Cardinality({i \in DOMAIN s : s[i] = label})
         IN (IF n > 0 THEN << <<label, n>> >> ELSE <<>>) \o C5_Distribution(s, k + 1)

\* C5: the ordered income distribution of each parent holds exactly the
\* labels of the salary order that occur in the column, in the order of the
\* salary order, each with its number of rows; no other value appears in it.
C5_OrderedDistribution ==
    IncomeRendered =>
        /\ charts["income"][1] = C5_Distribution(Column(df, "ayah_penghasilan"), 1)
        /\ charts["income"][2] = C5_Distribution(Column(df, "ibu_penghasilan"), 1)
        /\ Range(Index(charts["income"][1])) \subseteq Range(create_salary_order)
        /\ Range(Index(charts["income"][2])) \subseteq Range(create_salary_order)

\* a father's column that holds a higher bracket before a lower one, and the
\* placeholder
C5_Witness ==
    /\ IncomeRendered
    /\ Column(df, "ayah_penghasilan")
          = <<"10.000.001 - 20.000.000", "Tidak Diketahui", "2.500.001 - 5.000.000">>
    /\ Index(charts["income"][1]) = <<"2.500.001 - 5.000.000", "10.000.001 - 20.000.000">>

\* the bracket of a cell: its position in the salary order, 0 if unrecognised
BracketRank(v) ==
    IF v \in Range(create_salary_order)
    THEN CHOOSE k \in DOMAIN create_salary_order : create_salary_order[k] = v
    ELSE 0

CategoryRank(c) == CHOOSE k \in DOMAIN IncomeCategories : IncomeCategories[k] = c

\* the values a salary cell can hold after clean_data
CleanedSalaryCells == Range(create_salary_order) \cup {Placeholder, "lainnya"}

\* C10: the category stored for a row (a, b) is the category of (b, a), and
\* the category of a row with either cell replaced by one of a higher bracket
\* (an unrecognised cell by any label) is not lower.
C10_SymmetricMonotone ==
    IncomeRendered =>
        \A i \in DOMAIN df.rows :
            LET a == df.rows[i]["ayah_penghasilan"]
                b == df.rows[i]["ibu_penghasilan"]
                cat == df.rows[i][CombinedColumn]
            IN /\ cat = get_income_category(b, a)
               /\ \A v \in CleanedSalaryCells :
                     /\ BracketRank(v) >= BracketRank(a) =>
                           CategoryRank(get_income_category(v, b)) >= CategoryRank(cat)
                     /\ BracketRank(v) >= BracketRank(b) =>
                           CategoryRank(get_income_category(a, v)) >= CategoryRank(cat)

\* a row whose two cells are of different brackets
C10_Witness ==
    /\ IncomeRendered
    /\ \E i \in DOMAIN df.rows :
          /\ df.rows[i]["ayah_penghasilan"] = "2.500.001 - 5.000.000"
          /\ df.rows[i]["ibu_penghasilan"] = "20.000.001 - 50.000.000"
          /\ df.rows[i][CombinedColumn] = "> 50 Juta"

\* ------------------------------------------------- claims: top-N counts

\* series ps is the top n value counts of column s
C4_TopN(ps, s, n) ==
    LET values == Range(s) \ {NaN}
        included == Range(Index(ps))
        count(v) == Cardinality({i \in DOMAIN s : s[i] = v})
    IN /\ Len(ps) = (IF Cardinality(values) < n THEN Cardinality(values) ELSE n)
       /\ Cardinality(included) = Len(ps)
       /\ \A i \in DOMAIN ps : ps[i][1] \in values /\ ps[i][2] = count(ps[i][1])
       /\ \A i, j \in DOMAIN ps : i < j => ps[i][2] >= ps[j][2]
       /\ \A v \in values \ included : \A i \in DOMAIN ps : count(v) <= ps[i][2]

\* C4: the top-N value counts of alamat_kabupaten and asal_sekolah (N = 10)
\* and of ayah_pekerjaan and ibu_pekerjaan (N = 8) hold min(N, distinct
\* values) entries, each with its number of rows, in non-increasing order of
\* count, and no value left out has more rows than one included.
C4_TopCounts ==
    /\ "geographic" \in Range(out) =>
          C4_TopN(charts["geographic"][2], Column(df, "alamat_kabupaten"), 10)
    /\ "occupation" \in Range(out) =>
          /\ C4_TopN(charts["occupation"][1], Column(df, "ayah_pekerjaan"), 8)
          /\ C4_TopN(charts["occupation"][2], Column(df, "ibu_pekerjaan"), 8)
    /\ "origin" \in Range(out) =>
          C4_TopN(charts["origin"][2], Column(df, "asal_sekolah"), 10)

\* eleven distinct values, the one that occurs last in the column twice: it
\* leads every series, and both limits cut the values that occur once
C4_Witness ==
    /\ "origin" \in Range(out)
    /\ Column(df, "asal_sekolah") = TenKeys \o <<"k11", "k11">>
    /\ Len(charts["origin"][2]) = 10
    /\ charts["origin"][2][1] = <<"k11", 2>>
    /\ Len(charts["occupation"][1]) = 8
    /\ charts["occupation"][2][1] = <<"k11", 2>>
    /\ Len(charts["geographic"][2]) = 10

====
